---- MODULE Spec2Model ----
(***************************************************************************)
(* A model of pypdfium2's PdfDocument helper (_helpers/document.py): the   *)
(* concurrent rendering pipeline (_render_base, _process_page) on top of a *)
(* process pool, and the document / page handle lifecycle it rests on.     *)
(*                                                                         *)
(* Abstractions.                                                           *)
(*  - A native document is the sequence of its pages; a page is its size.  *)
(*  - A piece of input data (file path, byte string, buffer object, raw    *)
(*    handle) is a record [kind, doc, off]: doc is the document the data   *)
(*    decodes to, off the number of leading bytes that are missing from    *)
(*    it (a byte string read from the middle of a buffer does not decode). *)
(*  - concurrent.futures is the Python standard library: pool.map submits  *)
(*    every call at once, hands results back in submission order, cancels  *)
(*    the calls that are still pending when its iterator ends early, and   *)
(*    leaving the with-block calls shutdown(wait=True).                    *)
(***************************************************************************)
EXTENDS Integers, Sequences, FiniteSets, TLC

\* ------------------------------------------------------------- bounds

\* Largest number of pages of a document.
MaxPages == 2
\* Longest explicit page_indices list a caller passes.
MaxLen == 3
\* Largest n_processes a caller passes.
MaxProcs == 2
\* Length of the content of a buffer input, in abstract bytes.
BufLen == 1
\* Largest number of PdfPage objects the caller holds on to.
MaxKids == 2
\* Largest number of close() calls on one Document.
MaxCloses == 2
\* Largest number of pages of a Document whose pages are told apart.
MaxDocPages == 3
\* Largest number of bookmarks of a document.
MaxNodes == 3
\* Largest number of worker processes told apart in the library's life cycle.
MaxWorkers == 2
\* Largest number of documents one process opens.
MaxOpens == 2

VARIABLES
    orig_input,       \* self._orig_input
    pdf,              \* the native document behind self._pdf: its pages
    rendering_input,  \* self._rendering_input
    password,         \* self._password
    file_access,      \* self._file_access
    cursor,           \* read cursor of the buffer object given as input
    actual_input,     \* self._actual_input
    autoclose,        \* self._autoclose
    ld_data,          \* self._ld_data: "None", or the loader data open_pdf gave
    released,         \* doc: how often FPDF_CloseDocument released the native
                      \* document; ld: how often the loader data was closed;
                      \* buf: 1 once the input buffer is closed; file: how
                      \* many files the constructor closed again itself
    kids,             \* the PdfPage objects the caller holds, per page: raw
    result,           \* how the caller's last call on the Document ended
    misuse,           \* the engine has been handed a released handle
    proc,             \* the caller's process: "running" or "crashed"
    obj,              \* the Document object: "none" before the constructor is
                      \* called, "made" once it returned, "failed" if it raised
    opened,           \* how many files the constructor opened
    protection,       \* the password the input's content is encrypted with
    file_version,     \* the PDF version of the document, as the engine knows it
    sink,             \* the caller's output buffer: the blocks save() wrote to it
    outline,          \* the document's bookmarks: first child and next sibling
                      \* of each node, 0 for none (and for the root as parent)
    toc_pc,           \* the get_toc generator: "idle", "running", "done"
    stack,            \* the nested get_toc calls: bookmark and level of each
    seen,             \* the addresses of the bookmarks visited
    toc,              \* the bookmarks get_toc has yielded, with their levels
    warnings,         \* how many circular references get_toc has logged
    procs,            \* per process (0 the orchestrator, the others workers):
                      \* its state, whether pypdfium2 is imported, how often the
                      \* library was initialised and destroyed in it, how many
                      \* FPDF_DestroyLibrary handlers atexit holds, how many
                      \* documents it opened
    pc,               \* where the _render_base generator stands
    n_pages,          \* local n_pages of _render_base
    page_indices,     \* local page_indices of _render_base
    n_processes,      \* argument n_processes
    requested,        \* the page_indices argument as the caller gave it
    tasks,            \* the calls handed to pool.map, in submission order
    fut,              \* per call: the state of its future and of its worker
    i,                \* local counter i of _render_base
    yielded,          \* indices of the results yielded so far, in order
    pool,             \* the ProcessPoolExecutor: "none", "open", "shutdown"
    workers,          \* worker processes of the pool that are alive
    error             \* the exception the generator raised to the caller

vars == <<orig_input, pdf, rendering_input, password, file_access, cursor,
          actual_input, autoclose, ld_data, released, kids, result, misuse, proc,
          obj, opened, protection, file_version, sink,
          outline, toc_pc, stack, seen, toc, warnings, procs, pc,
          n_pages, page_indices, n_processes, requested, tasks, fut, i, yielded, pool,
          workers, error>>

lifeVars == <<actual_input, autoclose, ld_data, released, kids, result, misuse, proc>>
tocVars == <<outline, toc_pc, stack, seen, toc, warnings>>
openVars == <<obj, opened, protection, file_version, sink, tocVars, procs>>
docVars == <<orig_input, pdf, rendering_input, password, file_access, cursor, lifeVars,
             openVars>>
runVars == <<n_pages, page_indices, n_processes, requested, tasks, fut, i, yielded, pool,
             workers, error>>

\* ------------------------------------------------------------- values

\* A page, as far as the wrapper sees it: its size. One size is enough for
\* the rendering pipeline, which only looks pages up by index.
PageSizes == {<<1, 1>>}

SeqUpTo(S, n) == UNION {[1..k -> S] : k \in 0..n}

Docs == SeqUpTo(PageSizes, MaxPages)

\* self._rendering_input = None
NoInput == [kind |-> "none", doc |-> <<>>, off |-> 0]

Data(kind, doc, off) == [kind |-> kind, doc |-> doc, off |-> off]

\* page_indices = None
NoIndices == [given |-> FALSE, list |-> <<>>]

Indices(list) == [given |-> TRUE, list |-> list]

\* ------------------------------------------------- document helpers

\* range(n): 0, 1, ..., n-1
Range(n) == [k \in 1..n |-> k - 1]

\* len(self): FPDF_GetPageCount(self._pdf)
PageCount == Len(pdf)

\* What save() writes into the sink: the document at its current state.
SaveBytes(doc) == Data("bytes", doc, 0)

\* buffer.read() with the cursor at pos: the content from pos to the end.
BufferRead(buf, pos) == Data("bytes", buf.doc, pos)

\* isinstance(x, pdfium.FPDF_DOCUMENT)
IsRawDocument(x) == x.kind = "handle"

\* is_input_buffer(x): an object with seek, tell, read and readinto.
IsInputBuffer(x) == x.kind = "buffer"

\* The buffer branch without seek(0): the buffer is read from where its
\* cursor stands.
ReadWholeBufferFromCursor(buf, cur) ==
    [data |-> BufferRead(buf, cur), cursor |-> cur]

\* The buffer branch of the input-readiness step: cursor = tell(); seek(0);
\* read() (from the position seek left, to the end, where the cursor then
\* stands); seek(cursor). The data read and the cursor afterwards.
ReadWholeBuffer(buf, cur) ==
    LET saved == cur
        start == 0
        data  == BufferRead(buf, start)
        atEnd == BufLen
        back  == saved
    IN  [data |-> data, cursor |-> back]

\* Mutant: a raw handle is not saved, it is passed on as it is.
ReadyInputNoSave ==
    IF rendering_input # NoInput THEN rendering_input
    ELSE IF IsInputBuffer(orig_input) THEN ReadWholeBuffer(orig_input, cursor).data
    ELSE orig_input

\* An input-readiness step that does not look whether a snapshot exists.
ReadyInputOverwrites ==
    IF IsRawDocument(orig_input) THEN SaveBytes(pdf)
    ELSE IF IsInputBuffer(orig_input) THEN ReadWholeBuffer(orig_input, cursor).data
    ELSE orig_input

\* The input-readiness step of _render_base: the value of
\* self._rendering_input after it (the save of a raw handle has succeeded).
ReadyInput ==
    IF rendering_input # NoInput THEN rendering_input
    ELSE IF IsRawDocument(orig_input) THEN SaveBytes(pdf)
    ELSE IF IsInputBuffer(orig_input) THEN ReadWholeBuffer(orig_input, cursor).data
    ELSE orig_input

\* The buffer's cursor after the input-readiness step.
ReadyCursor ==
    IF rendering_input = NoInput /\ ~IsRawDocument(orig_input)
                                 /\ IsInputBuffer(orig_input)
    THEN ReadWholeBuffer(orig_input, cursor).cursor
    ELSE cursor

\* The list without the repeats of earlier elements.
RECURSIVE Unique(_)
Unique(list) ==
    IF list = <<>> THEN <<>>
    ELSE LET front == SubSeq(list, 1, Len(list) - 1)
             last  == list[Len(list)]
         IN  IF \E k \in DOMAIN front : front[k] = last
             THEN Unique(front)
             ELSE Append(Unique(front), last)

\* Mutant: the explicit list is reduced to its distinct indices.
EffectiveIndicesUnique(req, n) ==
    IF ~req.given \/ Len(req.list) = 0 THEN Range(n) ELSE Unique(req.list)

\* Mutant: None gives 0 .. n-2, the last page is missed.
EffectiveIndicesShort(req, n) ==
    IF ~req.given \/ Len(req.list) = 0
    THEN Range(IF n > 0 THEN n - 1 ELSE 0) ELSE req.list

\* page_indices after the defaulting of None and of the empty list.
EffectiveIndices(req, n) ==
    IF ~req.given \/ Len(req.list) = 0 THEN Range(n) ELSE req.list

\* Mutant: the lower bound is not checked.
AllBelow(list, n) == \A k \in 1..Len(list) : list[k] < n

\* A bounds check that lets the index n_pages through.
AllInBoundsInclusive(list, n) ==
    \A k \in 1..Len(list) : 0 <= list[k] /\ list[k] <= n

\* all(0 <= i < n_pages for i in page_indices)
AllInBounds(list, n) ==
    \A k \in 1..Len(list) : 0 <= list[k] /\ list[k] < n

\* functools.partial(_process_page, ...) applied to one index: the call.
MakeTask(index, renderer_name, input_data) ==
    [index |-> index, renderer_name |-> renderer_name, input_data |-> input_data,
     password |-> password, file_access |-> file_access]

Min(a, b) == IF a <= b THEN a ELSE b

\* A future as submit() makes it, and the worker-side state of its call.
NewFuture == [step |-> "pending", pdf |-> "none", page |-> "none", loads |-> <<>>,
              ret |-> -1]

\* ------------------------------------------------------------- Init

\* The file access strategies of FileAccess.
FileAccess == {"NATIVE", "BUFFER", "BYTES"}

\* self._actual_input as __init__ leaves it: for a file path, the path, the
\* file opened for reading, or the bytes read from it, by file_access.
ActualInput(input, fa) ==
    IF input.kind # "path" THEN input
    ELSE IF fa = "BUFFER" THEN Data("buffer", input.doc, 0)
    ELSE IF fa = "BYTES" THEN Data("bytes", input.doc, 0)
    ELSE input

\* An __init__ that leaves self._autoclose as the caller passed it.
AutoCloseAsPassed(input, fa, ac) == ac

\* self._autoclose as __init__ leaves it: forced for the file it opened itself.
AutoClose(input, fa, ac) == IF input.kind = "path" /\ fa = "BUFFER" THEN TRUE ELSE ac

\* The files __init__ opens: for a file path, one under BUFFER (kept open as
\* the input) and one under BYTES (read and closed again).
FilesOpened(input, fa) ==
    IF input.kind = "path" /\ fa \in {"BUFFER", "BYTES"} THEN 1 ELSE 0

\* The files __init__ closes again before it returns: under BYTES, the file
\* it has read (buf.close()).
FilesClosed(input, fa) ==
    IF input.kind = "path" /\ fa = "BYTES" THEN 1 ELSE 0

\* self._ld_data as __init__ leaves it: None for a raw handle; else what
\* open_pdf returns beside the document, the holder of the data a document
\* loaded from memory or through a reader rests on.
LoaderData(actual) == IF actual.kind \in {"bytes", "buffer"} THEN "held" ELSE "None"

\* The inputs a Document is made from: a file path, a byte string, a buffer
\* object, a raw handle (PdfDocument.new() included).
Kinds == {"path", "bytes", "buffer", "handle"}

\* A Document after construction: opened from an input of one of `kinds` (a
\* buffer's cursor the caller may have left anywhere), with pages among docs,
\* file_access among fas, autoclose among acs and a PDF version among vs.
InitDocument(kinds, docs, fas, acs, vs) ==
    /\ \E kind \in kinds, doc \in docs :
         /\ orig_input = Data(kind, IF kind = "handle" THEN <<>> ELSE doc, 0)
         /\ pdf = doc
    /\ rendering_input = NoInput
    /\ password = "none"
    /\ file_access \in fas
    /\ cursor \in (IF IsInputBuffer(orig_input) THEN 0..BufLen ELSE {0})
    /\ actual_input = ActualInput(orig_input, file_access)
    /\ \E ac \in acs : autoclose = AutoClose(orig_input, file_access, ac)
    /\ ld_data = LoaderData(actual_input)
    /\ released = [doc |-> 0, ld |-> 0, buf |-> 0,
                   file |-> FilesClosed(orig_input, file_access)]
    /\ kids = <<>>
    /\ result = "ok"
    /\ misuse = FALSE
    /\ proc = "running"
    /\ obj = "made"
    /\ opened = FilesOpened(orig_input, file_access)
    /\ protection = "none"
    /\ file_version \in vs
    /\ sink = <<>>

InitRun ==
    /\ pc = "idle"
    /\ n_pages = 0
    /\ page_indices = <<>>
    /\ n_processes = 1
    /\ requested = NoIndices
    /\ tasks = <<>>
    /\ fut = <<>>
    /\ i = 0
    /\ yielded = <<>>
    /\ pool = "none"
    /\ workers = 0
    /\ error = "none"

\* The processes: 0 is the orchestrator, the others are pool workers.
Procs == 0..MaxWorkers

\* A process that does not run yet.
Absent ==
    [state |-> "absent", how |-> "none", imported |-> FALSE, inits |-> 0,
     atexit |-> 0, destroys |-> 0, docs |-> 0, misused |-> FALSE]

\* A process as it starts, pypdfium2 not imported.
Fresh(how) == [Absent EXCEPT !.state = "running", !.how = how]

\* What running the package's module body leaves: the library initialised,
\* FPDF_DestroyLibrary registered with atexit.
Imported(q) ==
    [q EXCEPT !.imported = TRUE, !.inits = @ + 1, !.atexit = @ + 1]

\* The orchestrator with pypdfium2 imported; no worker.
InitLib ==
    procs = [p \in Procs |-> IF p = 0 THEN Imported(Fresh("main")) ELSE Absent]

\* A document without bookmarks.
NoOutline == [fc |-> [n \in {0} |-> 0], ns |-> <<>>]

\* No get_toc generator has been made; the document's outline is one of
\* `outlines`.
InitToc(outlines) ==
    /\ outline \in outlines
    /\ toc_pc = "idle"
    /\ stack = <<>>
    /\ seen = {}
    /\ toc = <<>>
    /\ warnings = 0

\* The rendering pipeline is run on Documents opened with the default
\* arguments: file_access = NATIVE, autoclose = False.
Init ==
    /\ InitDocument(Kinds, Docs, {"NATIVE"}, {FALSE}, {14})
    /\ InitRun
    /\ InitToc({NoOutline})
    /\ InitLib

\* ------------------------------------------------- _render_base

\* What a caller may pass as page_indices: None, or a list of integers, in
\* range or not.
Requests ==
    {NoIndices} \cup {Indices(l) : l \in SeqUpTo(-1..MaxPages, MaxLen)}

\* The requests tried on the wrappers whose renderer needs a further library
\* (PIL, NumPy): they differ from render_tobytes in the renderer's name only.
FewRequests == {NoIndices, Indices(<<0>>)}

\* The first next() on the generator, up to the submission of the calls:
\* input readiness, task generation, validation, pool creation, pool.map.
RenderStart(renderer_name, req, np, saveOk) ==
    /\ pc = "idle"
    /\ requested' = req
    /\ n_processes' = np
    /\ UNCHANGED <<orig_input, pdf, password, file_access, openVars, lifeVars, i, yielded>>
    /\ IF rendering_input = NoInput /\ IsRawDocument(orig_input) /\ ~saveOk
       THEN \* update_rendering_input: save() raised PdfiumError
            /\ pc' = "raised"
            /\ error' = "PdfiumError"
            /\ UNCHANGED <<rendering_input, cursor, n_pages, page_indices,
                           tasks, fut, pool, workers>>
       ELSE /\ rendering_input' = ReadyInput
            /\ cursor' = ReadyCursor
            /\ n_pages' = PageCount
            /\ LET list == EffectiveIndices(req, PageCount)
               IN  /\ page_indices' = list
                   /\ IF ~AllInBounds(list, PageCount)
                      THEN /\ pc' = "raised"
                           /\ error' = "ValueError"
                           /\ UNCHANGED <<tasks, fut, pool, workers>>
                      ELSE /\ tasks' = [k \in 1..Len(list) |->
                                          MakeTask(list[k], renderer_name, ReadyInput)]
                           /\ fut' = [k \in 1..Len(list) |-> NewFuture]
                           /\ pool' = "open"
                           /\ workers' = Min(np, Len(list))
                           /\ pc' = "waiting"
                           /\ error' = "none"

\* yield from self._render_base("bytes", **kwargs)
render_tobytes(req, np, saveOk) == RenderStart("bytes", req, np, saveOk)

\* yield from self._render_base("pil", **kwargs)
render_topil(req, np, saveOk) == RenderStart("pil", req, np, saveOk)

\* yield from self._render_base("numpy", **kwargs)
render_tonumpy(req, np, saveOk) == RenderStart("numpy", req, np, saveOk)

\* ------------------------------------------------- the process pool

\* Steps of a call that a worker process is executing.
RunningSteps == {"started", "opened", "loaded", "rendered", "page_closed"}

\* Steps of a call that has ended: _process_page returned or raised.
EndedSteps == {"returned", "raised"}

Running(f) == {k \in 1..Len(f) : f[k].step \in RunningSteps}

Pending(f) == {k \in 1..Len(f) : f[k].step = "pending"}

\* A pool that starts a call whenever one is pending.
IdleWorkerAlways(f, n) == TRUE

\* ProcessPoolExecutor(n_processes): the pool has n_processes workers, each
\* executing one call at a time, so one is idle when fewer calls execute.
IdleWorker(f, n) == Cardinality(Running(f)) < n

\* A worker process takes the next pending call, in submission order, when
\* fewer than n_processes calls are executing.
WorkerTake(k) ==
    /\ pool = "open"
    /\ k \in Pending(fut)
    /\ \A j \in Pending(fut) : k <= j
    /\ IdleWorker(fut, n_processes)
    /\ fut' = [fut EXCEPT ![k].step = "started"]
    /\ UNCHANGED <<docVars, pc, n_pages, page_indices, n_processes, requested, tasks, i,
                   yielded, pool, workers, error>>

\* ------------------------------------------------- _process_page

\* open_pdf on the call's input data: the document a worker gets from it,
\* when the data decodes.
Decodes(input_data) == input_data.off = 0

\* _verify_index that lets the index one past the last page through.
IndexInBoundsInclusive(index, doc) == 0 <= index /\ index <= Len(doc)

\* _verify_index: 0 <= index < n_pages, on the document's pages as they are.
IndexInBounds(index, doc) == 0 <= index /\ index < Len(doc)

\* pdf = cls(input_data, password = password, file_access = file_access)
ProcessOpen(k) ==
    /\ k \in 1..Len(fut)
    /\ fut[k].step = "started"
    /\ fut' = IF Decodes(tasks[k].input_data)
              THEN [fut EXCEPT ![k].step = "opened", ![k].pdf = "open"]
              ELSE [fut EXCEPT ![k].step = "raised"]
    /\ UNCHANGED <<docVars, pc, n_pages, page_indices, n_processes, requested, tasks, i,
                   yielded, pool, workers, error>>

\* A worker that always loads the first page.
LoadedIndexFirst(task) == 0

\* The index _process_page passes to get_page.
LoadedIndex(task) == task.index

\* page = pdf.get_page(index); loads lists the pages the call has loaded.
ProcessGetPage(k) ==
    /\ k \in 1..Len(fut)
    /\ fut[k].step = "opened"
    /\ fut' = IF IndexInBounds(tasks[k].index, tasks[k].input_data.doc)
              THEN [fut EXCEPT ![k].step = "loaded", ![k].page = "open",
                               ![k].loads = Append(@, LoadedIndex(tasks[k]))]
              ELSE [fut EXCEPT ![k].step = "raised"]
    /\ UNCHANGED <<docVars, pc, n_pages, page_indices, n_processes, requested, tasks, i,
                   yielded, pool, workers, error>>

\* result = getattr(page, "render_to" + renderer_name)(**kwargs); the engine
\* (or the import of the renderer's library) may fail.
ProcessRender(k, ok) ==
    /\ k \in 1..Len(fut)
    /\ fut[k].step = "loaded"
    /\ fut' = IF ok
              THEN [fut EXCEPT ![k].step = "rendered"]
              ELSE [fut EXCEPT ![k].step = "raised"]
    /\ UNCHANGED <<docVars, pc, n_pages, page_indices, n_processes, requested, tasks, i,
                   yielded, pool, workers, error>>

\* for g in (page, pdf): g.close()  -- first round: the page
ProcessClosePage(k) ==
    /\ k \in 1..Len(fut)
    /\ fut[k].step = "rendered"
    /\ fut' = [fut EXCEPT ![k].step = "page_closed", ![k].page = "closed"]
    /\ UNCHANGED <<docVars, pc, n_pages, page_indices, n_processes, requested, tasks, i,
                   yielded, pool, workers, error>>

\* The index _process_page returns beside the result.
ReturnedIndex(task) == task.index

\* for g in (page, pdf): g.close()  -- second round: the document; then
\* return result, index
ProcessCloseReturn(k) ==
    /\ k \in 1..Len(fut)
    /\ fut[k].step = "page_closed"
    /\ fut' = [fut EXCEPT ![k].step = "returned", ![k].pdf = "closed",
                          ![k].ret = ReturnedIndex(tasks[k])]
    /\ UNCHANGED <<docVars, pc, n_pages, page_indices, n_processes, requested, tasks, i,
                   yielded, pool, workers, error>>

\* ------------------------------------------------- results, in order

\* Mutant: results are handed out from the last submitted call backwards.
MapNextBackwards(done) == Len(tasks) - done

\* The call whose result pool.map's iterator hands out next, after it has
\* handed out `done` results: the next one in submission order.
MapNext(done) == done + 1

\* Mutant: the calls that are executing are cancelled as well.
CancelUnfinished(f, done) ==
    [k \in 1..Len(f) |->
        IF k > done /\ f[k].step \notin {"returned", "raised"}
        THEN [f[k] EXCEPT !.step = "cancelled"]
        ELSE f[k]]

\* The futures after the iterator's finally clause: future.cancel() on every
\* future not handed out yet, which cancels the pending ones only.
CancelPending(f, done) ==
    [k \in 1..Len(f) |->
        IF k > done /\ f[k].step = "pending"
        THEN [f[k] EXCEPT !.step = "cancelled"]
        ELSE f[k]]

\* for result, index in pool.map(...): the next result has arrived;
\* assert index == page_indices[i]; i += 1; yield result
Yield ==
    /\ pc = "waiting"
    /\ i < Len(tasks)
    /\ LET k == MapNext(i)
       IN  /\ fut[k].step = "returned"
           /\ IF fut[k].ret = page_indices[i + 1]
              THEN /\ i' = i + 1
                   /\ yielded' = Append(yielded, fut[k].ret)
                   /\ pc' = "suspended"
                   /\ UNCHANGED <<fut, error>>
              ELSE \* the assertion fails inside the with-block
                   /\ fut' = CancelPending(fut, i + 1)
                   /\ pc' = "exiting"
                   /\ error' = "AssertionError"
                   /\ UNCHANGED <<i, yielded>>
    /\ UNCHANGED <<docVars, n_pages, page_indices, n_processes, requested, tasks, pool,
                   workers>>

\* The call whose result is due has raised: the exception leaves pool.map's
\* iterator (which cancels what is pending) and then the with-block.
WorkerError ==
    /\ pc = "waiting"
    /\ i < Len(tasks)
    /\ fut[MapNext(i)].step = "raised"
    /\ fut' = CancelPending(fut, i + 1)
    /\ pc' = "exiting"
    /\ error' = "WorkerError"
    /\ UNCHANGED <<docVars, n_pages, page_indices, n_processes, requested, tasks, i,
                   yielded, pool, workers>>

\* pool.map's iterator is exhausted: the for loop ends, the with-block exits.
LoopEnd ==
    /\ pc = "waiting"
    /\ i = Len(tasks)
    /\ pc' = "exiting"
    /\ UNCHANGED <<docVars, runVars>>

\* The caller asks for the next result: next() on the suspended generator.
Resume ==
    /\ pc = "suspended"
    /\ pc' = "waiting"
    /\ UNCHANGED <<docVars, runVars>>

\* The caller abandons the sequence: the generator is closed (close(), or its
\* finalisation once dropped), GeneratorExit is raised at the yield and leaves
\* the with-block. pool.map's iterator is still alive: nothing is cancelled.
Abandon ==
    /\ pc = "suspended"
    /\ pc' = "exiting"
    /\ error' = "GeneratorExit"
    /\ UNCHANGED <<docVars, n_pages, page_indices, n_processes, requested, tasks, fut, i,
                   yielded, pool, workers>>

\* Mutant: no with-block; pool.shutdown() follows the loop, so that it is
\* reached on the normal path only, and an exception or GeneratorExit leaves
\* the generator with the pool as it is.
ShutdownAfterLoop ==
    /\ pc = "exiting"
    /\ pool = "open"
    /\ IF error = "none"
       THEN /\ Pending(fut) = {}
            /\ Running(fut) = {}
            /\ pool' = "shutdown"
            /\ workers' = 0
            /\ pc' = "done"
       ELSE /\ pc' = (IF error = "GeneratorExit" THEN "closed" ELSE "raised")
            /\ UNCHANGED <<pool, workers>>
    /\ UNCHANGED <<docVars, n_pages, page_indices, n_processes, requested, tasks,
                   fut, i, yielded, error>>

\* ProcessPoolExecutor.__exit__: shutdown(wait=True) returns once no call is
\* pending or executing; the worker processes have been joined. On the normal
\* path the final assertion follows: assert len(page_indices) == i
Shutdown ==
    /\ pc = "exiting"
    /\ pool = "open"
    /\ Pending(fut) = {}
    /\ Running(fut) = {}
    /\ pool' = "shutdown"
    /\ workers' = 0
    /\ IF error = "none"
       THEN IF Len(page_indices) = i
            THEN pc' = "done" /\ UNCHANGED error
            ELSE pc' = "raised" /\ error' = "AssertionError"
       ELSE IF error = "GeneratorExit"
            THEN pc' = "closed" /\ UNCHANGED error
            ELSE pc' = "raised" /\ UNCHANGED error
    /\ UNCHANGED <<docVars, n_pages, page_indices, n_processes, requested, tasks, fut, i,
                   yielded>>

\* The generator is finished; the caller may start another rendering.
Finished == {"done", "raised", "closed"}

Forget ==
    /\ pc \in Finished
    /\ pc' = "idle"
    /\ n_pages' = 0
    /\ page_indices' = <<>>
    /\ n_processes' = 1
    /\ requested' = NoIndices
    /\ tasks' = <<>>
    /\ fut' = <<>>
    /\ i' = 0
    /\ yielded' = <<>>
    /\ pool' = "none"
    /\ workers' = 0
    /\ error' = "none"
    /\ UNCHANGED docVars

\* ------------------------------------------------- changing the document

\* The caller's thread is free: no call on the Document is in progress.
CallerFree == pc \in {"idle", "suspended"} \cup Finished

\* index = None
NoIndex == -2

\* new_page that takes index = None for the beginning.
InsertIndexNoneFirst(index, n) == IF index = NoIndex THEN 0 ELSE index

\* The index new_page hands to the engine: len(self) if index is None.
InsertIndex(index, n) == IF index = NoIndex THEN n ELSE index

\* FPDFPage_New(doc, index, width, height): the engine inserts the page at
\* index, at the beginning when index <= 0, at the end when index is past
\* the last page.
PageNew(doc, index, size) ==
    LET at == IF index <= 0 THEN 0
              ELSE IF index > Len(doc) THEN Len(doc) ELSE index
    IN  SubSeq(doc, 1, at) \o <<size>> \o SubSeq(doc, at + 1, Len(doc))

\* FPDFPage_Delete(doc, index)
PageDelete(doc, index) ==
    SubSeq(doc, 1, index) \o SubSeq(doc, index + 2, Len(doc))

\* close() has been called: FPDF_CloseDocument has released the document.
Freed == released.doc > 0

\* A call into the engine with a released document handle is undefined
\* behaviour: the process crashes, or the call returns something meaningless
\* and the method goes on with it; `outs` are the ways the method can end.
Undefined(outs) ==
    /\ misuse' = TRUE
    /\ \E o \in outs :
         /\ result' = o
         /\ proc' = IF o = "crash" THEN "crashed" ELSE proc

\* The caller calls a method of the Document.
CallerCalls == CallerFree /\ proc = "running" /\ obj = "made"

\* A PdfPage as PdfPage(raw_page, self) makes it.
PdfPage(index) == [raw |-> "set", index |-> index]

\* get_version(): FPDF_GetFileVersion(self._pdf, version)
get_version ==
    /\ CallerCalls
    /\ IF Freed
       THEN Undefined({"garbage", "crash"})
       ELSE result' = "ok" /\ UNCHANGED <<misuse, proc>>
    /\ UNCHANGED <<orig_input, pdf, rendering_input, password, file_access, openVars, cursor,
                   actual_input, autoclose, ld_data, released, kids, pc, runVars>>

\* len(self): FPDF_GetPageCount(self._pdf)
len ==
    /\ CallerCalls
    /\ IF Freed
       THEN Undefined({"garbage", "crash"})
       ELSE result' = "ok" /\ UNCHANGED <<misuse, proc>>
    /\ UNCHANGED <<orig_input, pdf, rendering_input, password, file_access, openVars, cursor,
                   actual_input, autoclose, ld_data, released, kids, pc, runVars>>

\* new_page(width, height, index); the caller keeps the PdfPage, or drops it.
new_page(size, index, keep) ==
    /\ CallerCalls
    /\ keep => Len(kids) < MaxKids
    /\ IF Freed
       THEN Undefined({"garbage", "crash"}) /\ UNCHANGED <<pdf, kids>>
       ELSE LET at == InsertIndex(index, PageCount)
            IN  /\ pdf' = PageNew(pdf, at, size)
                /\ kids' = IF keep THEN Append(kids, PdfPage(at)) ELSE kids
                /\ result' = "ok"
                /\ UNCHANGED <<misuse, proc>>
    /\ UNCHANGED <<orig_input, rendering_input, password, file_access, openVars, cursor,
                   actual_input, autoclose, ld_data, released, pc, runVars>>

\* del_page(index): _verify_index raises IndexError, or the page is deleted.
del_page(index) ==
    /\ CallerCalls
    /\ IF Freed
       THEN Undefined({"garbage", "crash", "IndexError"}) /\ UNCHANGED pdf
       ELSE /\ IF IndexInBounds(index, pdf)
               THEN pdf' = PageDelete(pdf, index) /\ result' = "ok"
               ELSE pdf' = pdf /\ result' = "IndexError"
            /\ UNCHANGED <<misuse, proc>>
    /\ UNCHANGED <<orig_input, rendering_input, password, file_access, openVars, cursor,
                   actual_input, autoclose, ld_data, released, kids, pc, runVars>>

\* get_page(index): _verify_index raises IndexError, or the page is loaded;
\* the caller keeps the PdfPage, or drops it.
get_page(index, keep) ==
    /\ CallerCalls
    /\ keep => Len(kids) < MaxKids
    /\ IF Freed
       THEN Undefined({"garbage", "crash", "IndexError"}) /\ UNCHANGED kids
       ELSE /\ IF IndexInBounds(index, pdf)
               THEN /\ kids' = IF keep THEN Append(kids, PdfPage(index)) ELSE kids
                    /\ result' = "ok"
               ELSE kids' = kids /\ result' = "IndexError"
            /\ UNCHANGED <<misuse, proc>>
    /\ UNCHANGED <<orig_input, pdf, rendering_input, password, file_access, openVars, cursor,
                   actual_input, autoclose, ld_data, released, pc, runVars>>

\* update_rendering_input(): save to bytes and keep them, unless save() raises.
update_rendering_input(saveOk) ==
    /\ CallerCalls
    /\ IF Freed
       THEN Undefined({"garbage", "crash"}) /\ UNCHANGED rendering_input
       ELSE /\ rendering_input' = IF saveOk THEN SaveBytes(pdf) ELSE rendering_input
            /\ result' = IF saveOk THEN "ok" ELSE "PdfiumError"
            /\ UNCHANGED <<misuse, proc>>
    /\ UNCHANGED <<orig_input, pdf, password, file_access, openVars, cursor, actual_input,
                   autoclose, ld_data, released, kids, pc, runVars>>

\* close() that closes the input buffer whatever self._autoclose says.
AfterCloseAlways(rel) ==
    [doc |-> rel.doc + 1,
     ld  |-> IF ld_data # "None" THEN rel.ld + 1 ELSE rel.ld,
     buf |-> IF IsInputBuffer(actual_input) THEN 1 ELSE rel.buf,
     file |-> rel.file]

\* What close() releases: the native document, by FPDF_CloseDocument; the
\* loader data, if any, by its close(); the input buffer, if self._autoclose
\* is set and the input is a buffer, by its close(), which closes an open
\* buffer and does nothing to a closed one.
AfterClose(rel) ==
    [doc |-> rel.doc + 1,
     ld  |-> IF ld_data # "None" THEN rel.ld + 1 ELSE rel.ld,
     buf |-> IF autoclose /\ IsInputBuffer(actual_input) THEN 1 ELSE rel.buf,
     file |-> rel.file]

\* close(). The PdfPage objects got from the Document are not touched, and
\* self._pdf keeps the handle.
close ==
    /\ CallerCalls
    /\ released.doc < MaxCloses
    /\ IF Freed
       THEN \* FPDF_CloseDocument on the released handle
            /\ misuse' = TRUE
            /\ \E o \in {"closed", "crash"} :
                 /\ result' = o
                 /\ proc' = IF o = "crash" THEN "crashed" ELSE proc
                 /\ released' = IF o = "crash"
                                THEN [released EXCEPT !.doc = @ + 1]
                                ELSE AfterClose(released)
       ELSE /\ released' = AfterClose(released)
            /\ result' = "closed"
            /\ UNCHANGED <<misuse, proc>>
    /\ UNCHANGED <<orig_input, pdf, rendering_input, password, file_access, openVars, cursor,
                   actual_input, autoclose, ld_data, kids, pc, runVars>>

\* PdfPage.close() on a page the caller holds: the page is released and its
\* raw handle is gone.
page_close(j) ==
    /\ CallerCalls
    /\ j \in DOMAIN kids
    /\ kids[j].raw = "set"
    /\ kids' = [kids EXCEPT ![j].raw = "None"]
    /\ result' = "ok"
    /\ UNCHANGED <<orig_input, pdf, rendering_input, password, file_access, openVars, cursor,
                   actual_input, autoclose, ld_data, released, misuse, proc, pc,
                   runVars>>

\* ------------------------------------------------- the specification

Next ==
    \/ \E req \in Requests, np \in 1..MaxProcs, ok \in BOOLEAN :
           render_tobytes(req, np, ok)
    \/ \E req \in FewRequests, np \in 1..MaxProcs, ok \in BOOLEAN :
           render_topil(req, np, ok)
    \/ \E req \in FewRequests, np \in 1..MaxProcs, ok \in BOOLEAN :
           render_tonumpy(req, np, ok)
    \/ \E k \in DOMAIN fut : WorkerTake(k)
    \/ \E k \in DOMAIN fut : ProcessOpen(k)
    \/ \E k \in DOMAIN fut : ProcessGetPage(k)
    \/ \E k \in DOMAIN fut, ok \in BOOLEAN : ProcessRender(k, ok)
    \/ \E k \in DOMAIN fut : ProcessClosePage(k)
    \/ \E k \in DOMAIN fut : ProcessCloseReturn(k)
    \/ Yield
    \/ WorkerError
    \/ LoopEnd
    \/ Resume
    \/ Abandon
    \/ Shutdown
    \/ Forget
    \/ /\ Len(pdf) < MaxPages
       /\ \E size \in PageSizes, index \in {NoIndex, 0} : new_page(size, index, FALSE)
    \/ \E index \in 0..(PageCount - 1) : del_page(index)
    \/ update_rendering_input(TRUE)

Spec == Init /\ [][Next]_vars

\* A step of the pool: of one of its worker processes, or of its shutdown.
\* The caller's steps (asking for the next result, abandoning the sequence,
\* changing the document) are never forced.
PoolStep ==
    \/ \E k \in DOMAIN fut : WorkerTake(k)
    \/ \E k \in DOMAIN fut : ProcessOpen(k)
    \/ \E k \in DOMAIN fut : ProcessGetPage(k)
    \/ \E k \in DOMAIN fut, ok \in BOOLEAN : ProcessRender(k, ok)
    \/ \E k \in DOMAIN fut : ProcessClosePage(k)
    \/ \E k \in DOMAIN fut : ProcessCloseReturn(k)
    \/ Shutdown

\* The operating system keeps running the worker processes, every call of
\* the engine returns, and shutdown(wait=True) returns once nothing is left.
SpecFair == Init /\ [][Next]_vars /\ WF_vars(PoolStep)

\* The life of a Document and of the pages got from it, from construction
\* with any file_access and autoclose, to close() and beyond.
InitLife ==
    /\ InitDocument(Kinds, Docs, FileAccess, BOOLEAN, {14})
    /\ InitRun
    /\ InitToc({NoOutline})
    /\ InitLib

NextLife ==
    \/ get_version
    \/ len
    \/ /\ Len(pdf) < MaxPages
       /\ \E size \in PageSizes, index \in {NoIndex, 0}, keep \in BOOLEAN :
              new_page(size, index, keep)
    \/ \E index \in -1..MaxPages : del_page(index)
    \/ \E index \in -1..MaxPages, keep \in BOOLEAN : get_page(index, keep)
    \/ \E ok \in BOOLEAN : update_rendering_input(ok)
    \/ close
    \/ \E j \in 1..MaxKids : page_close(j)

SpecLife == InitLife /\ [][NextLife]_vars

\* ------------------------------------------------------ the constructor

\* What the caller may pass as input_data: the path of a file, a path that
\* names no file, a byte string, a buffer object, a raw handle, and an object
\* of no supported type (the integer 123).
InputKinds == {"path", "nofile", "bytes", "buffer", "handle", "int"}

\* The inputs that carry the content of a PDF file.
WithContent == {"path", "bytes", "buffer"}

\* What the caller may pass as file_access: a FileAccess, or something else.
FileAccessArgs == FileAccess \cup {"invalid"}

\* The passwords: none, the one of an encrypted file, a wrong one.
Passwords == {"none", "pw", "wrong"}

\* __init__ that does not look whether the path names a file.
InitErrorNoFileCheck(input, fa) ==
    IF input.kind \in {"path", "nofile"} /\ fa \notin FileAccess
    THEN "TypeError"
    ELSE "none"

\* __init__ that takes anything for a file access strategy.
InitErrorAnyAccess(input, fa) ==
    IF input.kind = "nofile" THEN "FileNotFoundError" ELSE "none"

\* The exception __init__ itself raises, "none" if it raises none: only for a
\* string, FileNotFoundError if it names no file, then TypeError if
\* file_access is no FileAccess.
InitError(input, fa) ==
    IF input.kind \notin {"path", "nofile"} THEN "none"
    ELSE IF input.kind = "nofile" THEN "FileNotFoundError"
    ELSE IF fa \notin FileAccess THEN "TypeError"
    ELSE "none"

\* The exception open_pdf raises, "none" if it raises none: TypeError for an
\* input of no supported type; PdfiumError, with the engine's reason, for a
\* file that cannot be read and for an encrypted document opened without its
\* password. A password given to a document that needs none does no harm.
OpenError(actual, lock, pw) ==
    IF actual.kind = "int" THEN "TypeError"
    ELSE IF actual.kind = "nofile" THEN "PdfiumError: File access error"
    ELSE IF lock # "none" /\ pw # lock THEN "PdfiumError: Incorrect password error"
    ELSE "none"

\* PdfDocument(input_data, password, file_access, autoclose): __init__. The
\* arguments are stored first; a string input is checked and, by file_access,
\* opened or read; a raw handle is taken as the document, anything else goes
\* through open_pdf.
PdfDocument(kind, doc, lock, pw, fa, ac, cur) ==
    LET input_data == Data(kind, IF kind \in WithContent THEN doc ELSE <<>>, 0)
        actual     == ActualInput(input_data, fa)
        e1         == InitError(input_data, fa)
        e2         == IF IsRawDocument(actual) THEN "none" ELSE OpenError(actual, lock, pw)
        e          == IF e1 # "none" THEN e1 ELSE e2
    IN  /\ obj = "none"
        /\ orig_input' = input_data
        /\ actual_input' = actual
        /\ rendering_input' = NoInput
        /\ password' = pw
        /\ file_access' = fa
        /\ autoclose' = AutoClose(input_data, fa, ac)
        /\ protection' = IF kind \in WithContent THEN lock ELSE "none"
        /\ cursor' = IF kind = "buffer" THEN cur ELSE 0
        /\ opened' = IF e1 = "none" THEN FilesOpened(input_data, fa) ELSE 0
        /\ released' = [released EXCEPT
                           !.file = IF e1 = "none" THEN FilesClosed(input_data, fa) ELSE 0]
        /\ result' = IF e = "none" THEN "ok" ELSE e
        /\ obj' = IF e = "none" THEN "made" ELSE "failed"
        /\ pdf' = IF e = "none" THEN doc ELSE pdf
        /\ ld_data' = IF e = "none" THEN LoaderData(actual) ELSE ld_data
        /\ UNCHANGED <<kids, misuse, proc, file_version, sink, tocVars,
                       procs, pc, runVars>>

\* Before the constructor is called there is no Document.
NoDocument ==
    /\ orig_input = NoInput
    /\ pdf = <<>>
    /\ rendering_input = NoInput
    /\ password = "none"
    /\ file_access = "NATIVE"
    /\ cursor = 0
    /\ actual_input = NoInput
    /\ autoclose = FALSE
    /\ ld_data = "None"
    /\ released = [doc |-> 0, ld |-> 0, buf |-> 0, file |-> 0]
    /\ kids = <<>>
    /\ result = "ok"
    /\ misuse = FALSE
    /\ proc = "running"
    /\ obj = "none"
    /\ opened = 0
    /\ protection = "none"
    /\ file_version = 14
    /\ sink = <<>>

\* pypdfium2 is imported, and no Document made yet.
InitOpen == NoDocument /\ InitRun /\ InitToc({NoOutline}) /\ InitLib

\* One constructor call; on the Document it makes, the calls that show it is
\* open, and close().
NextOpen ==
    \/ \E kind \in InputKinds, doc \in Docs, lock \in {"none", "pw"}, pw \in Passwords,
          fa \in FileAccessArgs, ac \in BOOLEAN, cur \in 0..BufLen :
           PdfDocument(kind, doc, lock, pw, fa, ac, cur)
    \/ get_version
    \/ len
    \/ \E index \in -1..MaxPages : get_page(index, TRUE)
    \/ close

SpecOpen == InitOpen /\ [][NextOpen]_vars

\* --------------------------------------------------------------- saving

\* Page sizes that tell the pages of a Document apart.
Sizes == {<<1, 1>>, <<2, 1>>}

\* version = None
NoVersion == 0

\* The PDF versions: 1.4 and 1.7.
Versions == {14, 17}

\* The version FPDF_SaveAsCopy gives the copy: the document's own, or 1.7
\* for a document that has none.
AutoVersion(own) == IF own = NoVersion THEN 17 ELSE own

\* save that calls FPDF_SaveAsCopy whatever version is.
SaveVersionAuto(version, own) == AutoVersion(own)

\* The version of the copy: FPDF_SaveAsCopy's if version is None, else the
\* one handed to FPDF_SaveWithVersion.
SaveVersion(version, own) == IF version = NoVersion THEN AutoVersion(own) ELSE version

\* The blocks the engine hands to WriteBlock one after the other: the header
\* "%PDF-<major>.<minor>", the pages, the end of file mark.
Serialise(doc, v) ==
    <<[header |-> <<"%PDF-", v \div 10, ".", v % 10>>]>>
    \o [j \in 1..Len(doc) |-> [page |-> doc[j]]]
    \o <<[trailer |-> "%EOF"]>>

\* A _writer_class that drops the block and reports it written.
WriteBlockDropped(buffer, block) == buffer

\* _writer_class.__call__: the block is written to the buffer.
WriteBlock(buffer, block) == Append(buffer, block)

RECURSIVE WriteBlocks(_, _)
\* The engine's calls of WriteBlock, block by block.
WriteBlocks(buffer, blocks) ==
    IF blocks = <<>> THEN buffer
    ELSE WriteBlocks(WriteBlock(buffer, Head(blocks)), Tail(blocks))

\* save(buffer, version) on a buffer of the caller's that is empty. A buffer
\* without write() is refused; else the engine writes the copy through
\* WriteBlock, all of it, or, when it reports failure, some of it.
save(writable, version, ok) ==
    /\ CallerCalls
    /\ IF ~writable
       THEN result' = "ValueError" /\ UNCHANGED <<sink, misuse, proc>>
       ELSE IF Freed
       THEN Undefined({"garbage", "crash"}) /\ UNCHANGED sink
       ELSE LET blocks == Serialise(pdf, SaveVersion(version, file_version))
            IN  /\ IF ok
                   THEN sink' = WriteBlocks(<<>>, blocks) /\ result' = "ok"
                   ELSE /\ \E n \in 0..(Len(blocks) - 1) :
                             sink' = WriteBlocks(<<>>, SubSeq(blocks, 1, n))
                        /\ result' = "PdfiumError"
                /\ UNCHANGED <<misuse, proc>>
    /\ UNCHANGED <<orig_input, pdf, rendering_input, password, file_access, cursor,
                   actual_input, autoclose, ld_data, released, kids, obj, opened,
                   protection, file_version, tocVars, procs, pc, runVars>>

\* The pages of the document open_pdf loads from saved bytes: a header, then
\* the pages, then the end of file mark; anything else fails to load.
Reopen(bytes) ==
    IF /\ Len(bytes) >= 2
       /\ "header" \in DOMAIN bytes[1]
       /\ "trailer" \in DOMAIN bytes[Len(bytes)]
       /\ \A j \in 2..(Len(bytes) - 1) : "page" \in DOMAIN bytes[j]
    THEN [loaded |-> TRUE, pages |-> [j \in 1..(Len(bytes) - 2) |-> bytes[j + 1].page]]
    ELSE [loaded |-> FALSE, pages |-> <<>>]

\* An open Document whose pages differ, loaded from bytes of version 1.4 or
\* made anew without a version, taken through new_page, del_page, get_page
\* and save.
InitPages ==
    InitDocument({"bytes", "handle"}, SeqUpTo(Sizes, MaxPages), {"NATIVE"}, {FALSE},
                 {14, NoVersion})
    /\ InitRun
    /\ InitToc({NoOutline})
    /\ InitLib

NextPages ==
    \/ /\ Len(pdf) < MaxDocPages
       /\ \E size \in Sizes, index \in {NoIndex} \cup (-1..MaxDocPages) :
              new_page(size, index, FALSE)
    \/ \E index \in -1..MaxDocPages : del_page(index)
    \/ \E index \in -1..MaxDocPages : get_page(index, FALSE)
    \/ \E writable \in BOOLEAN, version \in Versions \cup {NoVersion}, ok \in BOOLEAN :
           save(writable, version, ok)

SpecPages == InitPages /\ [][NextPages]_vars

\* ---------------------------------------------------------- the outline

\* max_depth = 15
DefaultMaxDepth == 15

\* The bookmark graphs the engine may present, well formed or not: every
\* node, and the root (0), has any node or none (0) as first child, and
\* every node has any node or none as next sibling.
Outlines ==
    [fc : [0..MaxNodes -> 0..MaxNodes], ns : [1..MaxNodes -> 0..MaxNodes]]

\* A get_toc call that takes every level for the top level.
FrameLevelZero(parent, level, max_depth) ==
    [bookmark |-> outline.fc[parent], level |-> 0, max_depth |-> max_depth]

\* A get_toc call that goes through the children of `parent`.
Frame(parent, level, max_depth) ==
    [bookmark |-> outline.fc[parent], level |-> level, max_depth |-> max_depth]

\* The innermost get_toc call.
Top == stack[Len(stack)]

\* The innermost get_toc call returns; the call that made it goes on to the
\* next sibling of its bookmark.
Return(stk) ==
    LET rest == SubSeq(stk, 1, Len(stk) - 1)
    IN  IF rest = <<>> THEN rest
        ELSE [rest EXCEPT ![Len(rest)].bookmark = outline.ns[@]]

\* A get_toc that keeps no address.
RememberNothing(addresses, address) == addresses

\* seen.add(address)
Remember(addresses, address) == addresses \cup {address}

\* get_toc(max_depth) is called and its generator started: nothing to do at
\* max_depth <= 0, else the root's first child is fetched.
get_toc(max_depth) ==
    /\ CallerCalls
    /\ toc_pc = "idle"
    /\ IF Freed
       THEN Undefined({"garbage", "crash"}) /\ UNCHANGED <<toc_pc, stack>>
       ELSE /\ toc_pc' = "running"
            /\ stack' = IF 0 >= max_depth THEN <<>> ELSE <<Frame(0, 0, max_depth)>>
            /\ result' = "ok"
            /\ UNCHANGED <<misuse, proc>>
    /\ UNCHANGED <<orig_input, pdf, rendering_input, password, file_access, cursor,
                   actual_input, autoclose, ld_data, released, kids, obj, opened,
                   protection, file_version, sink, outline, seen, toc, warnings,
                   procs, pc, runVars>>

\* What the steps of the generator leave alone.
TocUnchanged ==
    UNCHANGED <<orig_input, pdf, rendering_input, password, file_access, cursor,
                lifeVars, obj, opened, protection, file_version, sink, outline,
                procs, pc, runVars>>

\* The bookmark's address is in seen already: the warning is logged and the
\* loop left.
TocRevisit ==
    /\ toc_pc = "running"
    /\ stack # <<>>
    /\ Top.bookmark # 0
    /\ Top.bookmark \in seen
    /\ warnings' = warnings + 1
    /\ stack' = Return(stack)
    /\ UNCHANGED <<toc_pc, seen, toc>>
    /\ TocUnchanged

\* A bookmark not seen before: its address is kept, its item is yielded, and
\* get_toc is called for its children, which returns at once at max_depth.
TocYield ==
    /\ toc_pc = "running"
    /\ stack # <<>>
    /\ Top.bookmark # 0
    /\ Top.bookmark \notin seen
    /\ seen' = Remember(seen, Top.bookmark)
    /\ toc' = Append(toc, [node |-> Top.bookmark, level |-> Top.level])
    /\ stack' = IF Top.level + 1 >= Top.max_depth
                THEN [stack EXCEPT ![Len(stack)].bookmark = outline.ns[@]]
                ELSE Append(stack, Frame(Top.bookmark, Top.level + 1, Top.max_depth))
    /\ UNCHANGED <<toc_pc, warnings>>
    /\ TocUnchanged

\* No bookmark is left at this level: the loop ends and the call returns.
TocLevelEnd ==
    /\ toc_pc = "running"
    /\ stack # <<>>
    /\ Top.bookmark = 0
    /\ stack' = Return(stack)
    /\ UNCHANGED <<toc_pc, seen, toc, warnings>>
    /\ TocUnchanged

\* The outermost call has returned: the generator is exhausted.
TocEnd ==
    /\ toc_pc = "running"
    /\ stack = <<>>
    /\ toc_pc' = "done"
    /\ UNCHANGED <<stack, seen, toc, warnings>>
    /\ TocUnchanged

\* A Document with any outline; the caller runs get_toc to its end.
InitOutline ==
    /\ InitDocument({"bytes"}, {<<>>}, {"NATIVE"}, {FALSE}, {14})
    /\ InitRun
    /\ InitToc(Outlines)
    /\ InitLib

TocStep == TocRevisit \/ TocYield \/ TocLevelEnd \/ TocEnd

NextOutline ==
    \/ \E max_depth \in {0, 2, DefaultMaxDepth} : get_toc(max_depth)
    \/ TocRevisit
    \/ TocYield
    \/ TocLevelEnd
    \/ TocEnd

SpecOutline == InitOutline /\ [][NextOutline]_vars /\ WF_vars(TocStep)

\* ------------------------------------------- the library, per process

\* The package's module body without the call that initialises the library.
ModuleBodyWithoutInit(q) ==
    [q EXCEPT !.imported = TRUE, !.atexit = @ + 1]

\* The package's module body: FPDF_InitLibraryWithConfig is called, then
\* FPDF_DestroyLibrary is registered with atexit.
ModuleBody(q) == Imported(q)

\* What the steps of the processes leave alone.
LibUnchanged ==
    UNCHANGED <<orig_input, pdf, rendering_input, password, file_access, cursor,
                lifeVars, obj, opened, protection, file_version, sink, tocVars,
                pc, runVars>>

\* `import pypdfium2` in process p: the module body runs at the first import
\* of a process only; later imports find the module loaded.
Import(p) ==
    /\ procs[p].state = "running"
    /\ procs' = IF procs[p].imported THEN procs
                ELSE [procs EXCEPT ![p] = ModuleBody(@)]
    /\ LibUnchanged

\* Process p, pypdfium2 imported, opens a document: a call into the library,
\* a misuse unless the library is initialised and not destroyed.
OpenIn(p) ==
    /\ procs[p].state = "running"
    /\ procs[p].imported
    /\ procs[p].docs < MaxOpens
    /\ procs' = [procs EXCEPT
                    ![p].docs = @ + 1,
                    ![p].misused = @ \/ procs[p].inits = 0 \/ procs[p].destroys > 0]
    /\ LibUnchanged

\* The pool starts worker w: by fork, a copy of the orchestrator as it is,
\* or by spawn, a new interpreter.
StartWorker(w, how) ==
    /\ w # 0
    /\ procs[0].state = "running"
    /\ procs[0].imported
    /\ procs[w].state = "absent"
    /\ procs' = [procs EXCEPT
                    ![w] = IF how = "fork"
                           THEN [procs[0] EXCEPT !.how = "fork", !.docs = 0]
                           ELSE Fresh("spawn")]
    /\ LibUnchanged

\* Process p exits normally. The orchestrator and a spawned worker leave
\* through the interpreter, which runs the atexit handlers, each once; a
\* forked worker leaves through os._exit, which runs none.
Exit(p) ==
    /\ procs[p].state = "running"
    /\ procs' = [procs EXCEPT
                    ![p].state = "exited",
                    ![p].destroys = IF procs[p].how = "fork" THEN @
                                    ELSE @ + procs[p].atexit]
    /\ LibUnchanged

\* Process p is killed: no handler runs.
Kill(p) ==
    /\ procs[p].state = "running"
    /\ procs' = [procs EXCEPT ![p].state = "killed"]
    /\ LibUnchanged

\* The orchestrator starts without pypdfium2; there is no Document.
InitLibrary ==
    /\ NoDocument
    /\ InitRun
    /\ InitToc({NoOutline})
    /\ procs = [p \in Procs |-> IF p = 0 THEN Fresh("main") ELSE Absent]

NextLibrary ==
    \/ \E p \in Procs : Import(p)
    \/ \E p \in Procs : OpenIn(p)
    \/ \E w \in Procs, how \in {"fork", "spawn"} : StartWorker(w, how)
    \/ \E p \in Procs : Exit(p)
    \/ \E p \in Procs : Kill(p)

SpecLibrary == InitLibrary /\ [][NextLibrary]_vars

\* ================================================= the claims

IsPrefix(a, b) == Len(a) <= Len(b) /\ a = SubSeq(b, 1, Len(a))

\* The list 0, 1, ..., n-1.
Ascending(n) == [k \in 1..n |-> k - 1]

\* Some element of the list is outside [0, n).
SomeOutside(list, n) == \E k \in DOMAIN list : list[k] < 0 \/ list[k] >= n

\* The rendering went through the input-readiness step (the implicit save of
\* a raw handle, the one step before validation that can raise, succeeded).
Started == pc # "idle" /\ error # "PdfiumError"

\* C1, as stated: whatever list of valid indices is requested, the indices of
\* the yielded results are the requested list, position by position, and the
\* ordering assertion never fails.
C1_YieldedIsRequested ==
    /\ error # "AssertionError"
    /\ (Started /\ requested.given) => IsPrefix(yielded, requested.list)
    /\ (pc = "done" /\ requested.given) => yielded = requested.list

\* C1, amended: for every non-empty list of valid page indices (any order,
\* repeats allowed) and every interleaving of the workers, the indices of the
\* yielded results are at every moment a prefix of the requested list and at
\* the end the list itself, and the ordering assertion never fails. An empty
\* list is handled like None and yields the pages 0 .. page_count-1.
C1_OrderPreserved ==
    /\ error # "AssertionError"
    /\ IsPrefix(yielded, page_indices)
    /\ pc = "done" => yielded = page_indices
    /\ (Started /\ requested.given /\ Len(requested.list) > 0)
           => IsPrefix(yielded, requested.list)
    /\ (pc = "done" /\ requested.given /\ Len(requested.list) > 0)
           => yielded = requested.list
    /\ (pc = "done" /\ requested.given /\ Len(requested.list) = 0)
           => yielded = Ascending(n_pages)

\* C1's case: indices out of order with a repeat, two workers, the third call
\* has returned before the second, and the first result has been yielded.
C1_Witness ==
    /\ requested = Indices(<<1, 0, 1>>)
    /\ n_processes = 2
    /\ yielded = <<1>>
    /\ fut[3].step = "returned"
    /\ fut[2].step \in RunningSteps

\* C2: whenever a requested index is outside [0, page_count), the rendering
\* ends with ValueError before dispatch: no pool, no call submitted, no
\* worker, no step of any call, in-range indices of the batch included.
C2_FailFast ==
    (Started /\ requested.given /\ SomeOutside(requested.list, n_pages))
        => /\ pc = "raised"
           /\ error = "ValueError"
           /\ pool = "none"
           /\ workers = 0
           /\ tasks = <<>>
           /\ fut = <<>>
           /\ yielded = <<>>

\* C2's case: a batch with an in-range and an out-of-range index was refused.
C2_Witness ==
    /\ requested = Indices(<<0, 2>>)
    /\ n_pages = 2
    /\ error = "ValueError"
    /\ pool = "none"

\* C3: with page_indices = None the calls submitted are those for
\* 0, 1, ..., page_count-1 in ascending order, one each, for every pool size,
\* and the finished rendering has yielded exactly these page_count results.
C3_AllPages ==
    (Started /\ ~requested.given)
        => /\ error # "ValueError"
           /\ page_indices = Ascending(n_pages)
           /\ Len(tasks) = n_pages
           /\ \A k \in DOMAIN tasks : tasks[k].index = k - 1
           /\ IsPrefix(yielded, Ascending(n_pages))
           /\ pc = "done" => (Len(yielded) = n_pages
                               /\ yielded = Ascending(n_pages))

\* C3's case: all the pages of a document, two processes, consumed to the end.
C3_Witness ==
    /\ ~requested.given
    /\ n_pages = MaxPages
    /\ n_processes = 2
    /\ pc = "done"
    /\ yielded = Ascending(MaxPages)

\* C4, as stated: for every explicit list of valid indices, the empty one
\* included, one call per element is submitted and the finished rendering has
\* yielded as many results as the list has elements.
C4_OnePerElement ==
    (Started /\ requested.given /\ error # "ValueError")
        => /\ Len(tasks) = Len(requested.list)
           /\ pc = "done" => Len(yielded) = Len(requested.list)

\* C4, amended: for every explicit non-empty list of valid indices, repeats
\* included, one call per element is submitted, and the finished rendering
\* has yielded as many results as the list has elements; the explicit empty
\* list is handled like None: page_count calls, page_count results.
C4_OnePerElementNonEmpty ==
    /\ (Started /\ requested.given /\ Len(requested.list) > 0
                /\ error # "ValueError")
           => /\ Len(tasks) = Len(requested.list)
              /\ Len(fut) = Len(requested.list)
              /\ \A k \in DOMAIN tasks : tasks[k].index = requested.list[k]
              /\ pc = "done" => Len(yielded) = Len(requested.list)
    /\ (Started /\ requested.given /\ Len(requested.list) = 0)
           => /\ Len(tasks) = n_pages
              /\ pc = "done" => Len(yielded) = n_pages

\* C4's case: a list with a repeated index, rendered to the end.
C4_Witness ==
    /\ requested = Indices(<<1, 1, 0>>)
    /\ pc = "done"
    /\ Len(tasks) = 3
    /\ Len(yielded) = 3

C7_TransferableInput ==
    /\ rendering_input.kind \in {"none", "bytes", "path"}
    /\ \A k \in DOMAIN tasks :
           /\ tasks[k].input_data.kind \in {"bytes", "path"}
           /\ tasks[k].input_data.off = 0
           /\ orig_input.kind \in {"handle", "buffer"}
                  => tasks[k].input_data.kind = "bytes"
    /\ tasks # <<>> => rendering_input # NoInput

\* C7's case: calls were built for a Document that wraps a raw handle.
C7_Witness ==
    /\ orig_input.kind = "handle"
    /\ Len(tasks) = 2
    /\ tasks[1].input_data = Data("bytes", pdf, 0)

\* C8, as stated: when a call has ended, by returning or by raising, the page
\* it loaded and the document it opened are closed.
C8_HandlesReleased ==
    \A k \in DOMAIN fut :
        fut[k].step \in EndedSteps => fut[k].pdf # "open" /\ fut[k].page # "open"

\* C6: on every path that leaves the with-block of a rendering that created a
\* pool (the results are used up, the caller abandons the sequence after
\* fewer results, a worker's exception surfaces), the pool is eventually shut
\* down and none of its worker processes is left; a finished rendering never
\* leaves a pool open.
C6_PoolShutDown ==
    /\ (pc = "exiting") ~> (pool = "shutdown" /\ workers = 0)
    /\ [](pc \in Finished => (pool # "open" /\ workers = 0))

\* C6's case: the caller abandoned the sequence after one of three results,
\* and the pool has been shut down.
C6_Witness ==
    /\ pc = "closed"
    /\ Len(tasks) = 3
    /\ i = 1
    /\ pool = "shutdown"
    /\ workers = 0

\* C9, as stated: once close() has been called on a Document, every PdfPage
\* got from it is closed: its raw handle is None.
C9_CloseCascades ==
    Freed => \A j \in DOMAIN kids : kids[j].raw = "None"

\* C10, as stated: once close() has been called on a Document, every later
\* call that needs the native handle ends with an error, and the engine is
\* never handed the released handle.
C10_UseAfterCloseFails ==
    /\ ~misuse
    /\ Freed => result \in {"closed", "IndexError", "PdfiumError", "ArgumentError"}

\* C11, as stated: whatever the sequence of close() calls on a Document, the
\* native document is released at most once, the loader data at most once and
\* the input buffer is closed at most once.
C11_ReleasedAtMostOnce ==
    /\ released.doc <= 1
    /\ released.ld <= 1
    /\ released.buf <= 1

\* C12: for a Document opened from a buffer of the caller's, the buffer is
\* open until close() is called, and after close() it is closed exactly when
\* autoclose was asked for.
C12_AutocloseDecides ==
    orig_input.kind = "buffer" =>
        IF Freed THEN (released.buf = 1) <=> autoclose ELSE released.buf = 0

\* C12's case: a Document opened from a buffer with autoclose has been
\* closed, and the buffer with it.
C12_Witness ==
    /\ orig_input.kind = "buffer"
    /\ autoclose
    /\ Freed
    /\ released.buf = 1

\* C13: the constructor sorts its failures: a path that names no file fails
\* with FileNotFoundError; an input of no supported type fails with
\* TypeError; an encrypted document opened without its password, the call
\* being in order otherwise, fails with PdfiumError naming the incorrect
\* password; and a failed constructor leaves no Document, no native handle
\* and no loader data bound.
C13_OpenFailures ==
    /\ orig_input.kind = "nofile" =>
           obj = "failed" /\ result = "FileNotFoundError"
    /\ orig_input.kind = "int" =>
           obj = "failed" /\ result = "TypeError"
    /\ ( /\ orig_input.kind \in WithContent
         /\ orig_input.kind = "path" => file_access \in FileAccess
         /\ protection # "none"
         /\ password # protection ) =>
           obj = "failed" /\ result = "PdfiumError: Incorrect password error"
    /\ obj = "failed" =>
           /\ result \in {"FileNotFoundError", "TypeError",
                          "PdfiumError: Incorrect password error"}
           /\ pdf = <<>>
           /\ ld_data = "None"
           /\ released.doc = 0

\* C13's case: an encrypted document given as bytes was opened with a wrong
\* password, and the constructor raised.
C13_Witness ==
    /\ obj = "failed"
    /\ orig_input.kind = "bytes"
    /\ protection = "pw"
    /\ password = "wrong"
    /\ result = "PdfiumError: Incorrect password error"

\* C14, as stated: a file_access that is no FileAccess makes the constructor
\* fail with TypeError whatever the input is, before a file is opened or a
\* handle bound.
C14_InvalidAccessRejected ==
    (obj # "none" /\ file_access = "invalid") =>
        /\ obj = "failed"
        /\ result = "TypeError"
        /\ opened = 0

\* C14, amended: for the path of an existing file, a file_access that is no
\* FileAccess makes the constructor fail with TypeError before a file is
\* opened or a handle bound.
C14_InvalidAccessRejectedForPath ==
    (obj # "none" /\ file_access = "invalid" /\ orig_input.kind = "path") =>
        /\ obj = "failed"
        /\ result = "TypeError"
        /\ opened = 0
        /\ pdf = <<>>
        /\ ld_data = "None"

\* C14's case: the constructor was called with the path of a file and a
\* file_access that is no FileAccess, and raised TypeError.
C14_Witness ==
    /\ obj = "failed"
    /\ orig_input.kind = "path"
    /\ file_access = "invalid"
    /\ result = "TypeError"
    /\ opened = 0

\* C15: on an open Document, get_page(index) and del_page(index) succeed
\* exactly when 0 <= index < page count at the time of the call; otherwise
\* they end with IndexError and leave the pages as they were. A del_page that
\* succeeds takes exactly one page away, a get_page leaves the pages alone.
C15_BoundsChecked ==
    [][ ~Freed =>
          \A index \in -1..MaxPages :
              LET inside == 0 <= index /\ index < Len(pdf)
              IN  /\ del_page(index) =>
                        IF inside
                        THEN result' = "ok" /\ Len(pdf') = Len(pdf) - 1
                        ELSE result' = "IndexError" /\ pdf' = pdf
                  /\ \A keep \in BOOLEAN :
                        get_page(index, keep) =>
                            /\ pdf' = pdf
                            /\ IF inside
                               THEN result' = "ok"
                               ELSE result' = "IndexError" /\ kids' = kids ]_vars

\* C15's case: on an open Document with all the pages it can have, one of
\* them held by the caller, a bounds-checked call has ended with IndexError.
C15_Witness ==
    /\ ~Freed
    /\ result = "IndexError"
    /\ Len(pdf) = MaxPages
    /\ Len(kids) = 1

\* A sequence without its j-th element.
Without(seq, j) == SubSeq(seq, 1, j - 1) \o SubSeq(seq, j + 1, Len(seq))

\* C16: on an open Document, new_page(width, height, index) succeeds for every
\* index and adds exactly one page: at index clamped to 0..page count before
\* (at the end for index None), the page there has the size asked for, and
\* the pages that were there before keep their order.
C16_NewPageClamped ==
    [][ ~Freed =>
          \A size \in Sizes, index \in {NoIndex} \cup (-1..MaxDocPages),
             keep \in BOOLEAN :
              new_page(size, index, keep) =>
                  LET n  == Len(pdf)
                      at == IF index = NoIndex \/ index > n THEN n
                            ELSE IF index <= 0 THEN 0 ELSE index
                  IN  /\ result' = "ok"
                      /\ Len(pdf') = n + 1
                      /\ pdf'[at + 1] = size
                      /\ Without(pdf', at + 1) = pdf ]_vars

\* C16's case: two pages that differ, and a third one added between or
\* around them.
C16_Witness ==
    /\ ~Freed
    /\ result = "ok"
    /\ Len(pdf) = MaxDocPages
    /\ pdf[1] # pdf[2]

\* C17: a save that succeeds on an open Document writes bytes from which a
\* Document with as many pages as the saved one has at that time is opened,
\* after any new_page and del_page calls, and leaves the saved Document as
\* it was.
C17_SaveReopenPageCount ==
    [][ ~Freed =>
          \A version \in Versions \cup {NoVersion} :
              save(TRUE, version, TRUE) =>
                  /\ Reopen(sink').loaded
                  /\ Len(Reopen(sink').pages) = Len(pdf)
                  /\ pdf' = pdf
                  /\ file_version' = file_version
                  /\ released' = released ]_vars

\* C17's case: a Document that got its third page from new_page has been
\* saved, and the bytes written hold a document of three pages.
C17_Witness ==
    /\ ~Freed
    /\ result = "ok"
    /\ Len(pdf) = MaxDocPages
    /\ Reopen(sink).loaded
    /\ Len(Reopen(sink).pages) = MaxDocPages

\* C18: on an open Document, save with a version writes a header of exactly
\* that version (17 gives "%PDF-1.7") whatever the document's own version
\* and pages are; save without a version writes the engine's choice; and
\* when the engine reports failure, save raises PdfiumError.
C18_SaveVersionHeader ==
    [][ ~Freed =>
          \A version \in Versions \cup {NoVersion}, ok \in BOOLEAN :
              save(TRUE, version, ok) =>
                  IF ok
                  THEN LET v == IF version # NoVersion THEN version
                                ELSE IF file_version # NoVersion THEN file_version
                                ELSE 17
                       IN  /\ result' = "ok"
                           /\ sink'[1].header = <<"%PDF-", v \div 10, ".", v % 10>>
                           /\ version = 17 => sink'[1].header = <<"%PDF-", 1, ".", 7>>
                  ELSE result' = "PdfiumError" ]_vars

\* C18's case: a document of version 1.4, one page deleted, has been saved
\* with version 17, and the bytes written start with "%PDF-1.7".
C18_Witness ==
    /\ ~Freed
    /\ result = "ok"
    /\ file_version = 14
    /\ Len(pdf) < Len(orig_input.doc)
    /\ sink # <<>>
    /\ sink[1].header = <<"%PDF-", 1, ".", 7>>

\* C19: on every bookmark graph, cyclic ones included, a get_toc that is run
\* comes to its end; it yields no bookmark twice; and on a bookmark whose
\* address it has seen it logs the warning and leaves that level without
\* yielding or going deeper.
C19_TocTerminates ==
    /\ (toc_pc = "running") ~> (toc_pc = "done")
    /\ [](\A a, b \in DOMAIN toc : a # b => toc[a].node # toc[b].node)
    /\ [][ ( /\ toc_pc = "running"
             /\ stack # <<>>
             /\ stack[Len(stack)].bookmark # 0
             /\ stack[Len(stack)].bookmark \in seen ) =>
               /\ warnings' = warnings + 1
               /\ toc' = toc
               /\ Len(stack') = Len(stack) - 1 ]_vars

\* C19's case: the cycle A -> B -> A (A the root's first child, B the first
\* child of A, A the first child of B): get_toc has yielded A, then B, has
\* logged one warning and is done.
C19_Witness ==
    /\ outline.fc[0] = 1
    /\ outline.fc[1] = 2
    /\ outline.fc[2] = 1
    /\ toc_pc = "done"
    /\ toc = <<[node |-> 1, level |-> 0], [node |-> 2, level |-> 1]>>
    /\ warnings = 1

\* C20: in every process, the orchestrator and each worker, the library is
\* initialised exactly once before a document is opened and never more than
\* once; it is destroyed at most once, only where it was initialised and
\* only at the normal exit of the process; and no document is opened while
\* the library is not initialised or is destroyed.
C20_LibraryOncePerProcess ==
    \A p \in Procs :
        /\ procs[p].inits <= 1
        /\ procs[p].imported => procs[p].inits = 1
        /\ procs[p].docs > 0 => procs[p].inits = 1
        /\ procs[p].destroys <= 1
        /\ procs[p].destroys > 0 => procs[p].inits = 1 /\ procs[p].state = "exited"
        /\ ~procs[p].misused

\* C20's case: the orchestrator and a spawned worker have each opened a
\* document and left normally, the library destroyed once in each; a forked
\* worker has opened a document too.
C20_Witness ==
    /\ procs[0].state = "exited"
    /\ procs[0].docs > 0
    /\ procs[0].destroys = 1
    /\ procs[1].how = "spawn"
    /\ procs[1].state = "exited"
    /\ procs[1].docs > 0
    /\ procs[1].inits = 1
    /\ procs[1].destroys = 1
    /\ procs[2].how = "fork"
    /\ procs[2].docs > 0

\* C21: when a rendering starts on a Document opened from a buffer and no
\* snapshot exists, the snapshot becomes the buffer's whole content, read
\* from offset 0 wherever the cursor stood, and the cursor is afterwards
\* where it was before.
C21_BufferCursorKept ==
    [][ ( /\ pc = "idle"
          /\ pc' # "idle"
          /\ rendering_input = NoInput
          /\ orig_input.kind = "buffer" ) =>
            /\ rendering_input' = [kind |-> "bytes", doc |-> orig_input.doc, off |-> 0]
            /\ cursor' = cursor ]_vars

\* C21's case: a rendering was started on a buffer whose cursor stood at its
\* end, and stands there again; the snapshot is the content from offset 0.
C21_Witness ==
    /\ orig_input.kind = "buffer"
    /\ Len(orig_input.doc) > 0
    /\ cursor = BufLen
    /\ pc = "waiting"
    /\ rendering_input.kind = "bytes"
    /\ rendering_input.off = 0

\* C22: update_rendering_input() makes the snapshot the bytes of the document
\* as it is at the call; a rendering that starts with a snapshot leaves it as
\* it is and hands exactly it to its calls; and all calls of one rendering
\* carry the same input, password, file access strategy and renderer.
C22_SnapshotDispatched ==
    /\ [][ update_rendering_input(TRUE) =>
               rendering_input' = [kind |-> "bytes", doc |-> pdf, off |-> 0] ]_vars
    /\ [][ (pc = "idle" /\ pc' = "waiting" /\ rendering_input # NoInput) =>
               /\ rendering_input' = rendering_input
               /\ \A k \in DOMAIN tasks' : tasks'[k].input_data = rendering_input ]_vars
    /\ [](\A k \in DOMAIN tasks :
              /\ tasks[k].input_data = tasks[1].input_data
              /\ tasks[k].password = password
              /\ tasks[k].file_access = file_access
              /\ tasks[k].renderer_name = tasks[1].renderer_name)

\* C22's case: a Document opened from a path got a page more, then its
\* snapshot was updated, and a rendering of two pages carries that snapshot
\* in both calls.
C22_Witness ==
    /\ orig_input.kind = "path"
    /\ Len(pdf) > Len(orig_input.doc)
    /\ rendering_input = [kind |-> "bytes", doc |-> pdf, off |-> 0]
    /\ pc = "waiting"
    /\ Len(tasks) = 2
    /\ tasks[1].input_data = rendering_input
    /\ tasks[2].input_data = rendering_input

\* C23, as stated: whatever new_page, del_page, update_rendering_input and
\* rendering calls came before, every index of a dispatched call is an index
\* of the document the worker makes from the call's input.
C23_ValidatedIsValidInWorker ==
    \A k \in DOMAIN tasks :
        /\ 0 <= tasks[k].index
        /\ tasks[k].index < Len(tasks[k].input_data.doc)

\* C23, amended: when the dispatched input holds the document as it was at
\* the bounds check (as many pages as were counted then), every index of a
\* dispatched call is an index of the worker's document and no get_page
\* fails in a worker; and the bounds check refuses a request only for an
\* index outside the live document.
C23_FreshSnapshotAgrees ==
    /\ [](\A k \in DOMAIN tasks :
              Len(tasks[k].input_data.doc) = n_pages =>
                  /\ 0 <= tasks[k].index
                  /\ tasks[k].index < Len(tasks[k].input_data.doc))
    /\ [][ \A k \in DOMAIN fut :
               (k \in DOMAIN fut' /\ fut[k].step = "opened" /\ fut'[k].step = "raised")
                   => Len(tasks[k].input_data.doc) # n_pages ]_vars
    /\ [](error = "ValueError" => SomeOutside(page_indices, n_pages))

\* C23's case: a Document opened from a path got a page more, its snapshot
\* was updated, and a worker has loaded the new last page from the snapshot.
C23_Witness ==
    /\ orig_input.kind = "path"
    /\ Len(pdf) > Len(orig_input.doc)
    /\ pc = "waiting"
    /\ Len(tasks) = 1
    /\ tasks[1].input_data.doc = pdf
    /\ tasks[1].index = Len(pdf) - 1
    /\ fut[1].step = "loaded"

\* The step of _process_page that comes right before each step of a call
\* that goes through.
StepBefore ==
    [s \in {"opened", "loaded", "rendered", "page_closed", "returned"} |->
        CASE s = "opened" -> "started"
          [] s = "loaded" -> "opened"
          [] s = "rendered" -> "loaded"
          [] s = "page_closed" -> "rendered"
          [] s = "returned" -> "page_closed"]

\* C24: a worker call goes open document, load page, render, close page,
\* close document, return, one step after the other; the only page it loads
\* is the one at its task's index; the page is closed while the document is
\* still open; and a call that returned has closed both and returned its
\* task's index.
C24_WorkerCallOrder ==
    /\ [][ \A k \in DOMAIN fut :
               (k \in DOMAIN fut' /\ fut'[k].step # fut[k].step
                    /\ fut'[k].step \in DOMAIN StepBefore)
                   => fut[k].step = StepBefore[fut'[k].step] ]_vars
    /\ [](\A k \in DOMAIN fut :
              /\ fut[k].step \in {"pending", "started", "opened"} => fut[k].loads = <<>>
              /\ fut[k].step \in {"loaded", "rendered", "page_closed", "returned"} =>
                     fut[k].loads = <<tasks[k].index>>
              /\ fut[k].step \in {"loaded", "rendered"} =>
                     fut[k].pdf = "open" /\ fut[k].page = "open"
              /\ fut[k].step = "page_closed" =>
                     fut[k].pdf = "open" /\ fut[k].page = "closed"
              /\ fut[k].step = "returned" =>
                     /\ fut[k].pdf = "closed" /\ fut[k].page = "closed"
                     /\ fut[k].ret = tasks[k].index)

\* C24's case: the second call of a rendering, for page 1, has returned.
C24_Witness ==
    /\ Len(fut) = 2
    /\ tasks[2].index = 1
    /\ fut[2].step = "returned"
    /\ fut[2].loads = <<1>>
    /\ fut[2].ret = 1

\* C25: the pool never has more than n_processes workers and never more than
\* n_processes calls executing; a call is started only from pending, so no
\* call is executed twice; when the caller has consumed all results every
\* dispatched call was executed and returned; and every call gets its input
\* as a path or bytes and opens a document of its own, never a handle of
\* another process.
C25_PoolBounded ==
    /\ [](/\ workers <= n_processes
          /\ Cardinality({k \in DOMAIN fut : fut[k].step \in RunningSteps}) <= n_processes)
    /\ [][ \A k \in DOMAIN fut :
               (k \in DOMAIN fut' /\ fut'[k].step = "started" /\ fut[k].step # "started")
                   => fut[k].step = "pending" ]_vars
    /\ [](pc = "done" =>
              /\ Len(fut) = Len(page_indices)
              /\ \A k \in DOMAIN fut : fut[k].step = "returned")
    /\ [](\A k \in DOMAIN fut :
              /\ tasks[k].input_data.kind \in {"path", "bytes"}
              /\ fut[k].step \in {"opened", "loaded", "rendered", "page_closed"}
                     => fut[k].pdf = "open")

\* C25's case: three calls on a pool of two: two are executing and the third
\* waits for a worker.
C25_Witness ==
    /\ pc = "waiting"
    /\ n_processes = 2
    /\ Len(fut) = 3
    /\ fut[1].step = "loaded"
    /\ fut[2].step = "opened"
    /\ fut[3].step = "pending"

\* C26: get_toc yields in pre-order and within the depth bound. An item is
\* yielded only at a level below the call's max_depth (none at max_depth <= 0);
\* the first item is the root's first child at level 0; an item one level
\* below the item before it is that item's first child; any other item is
\* the next sibling of the last item of its own level, everything yielded
\* in between being deeper (that item's descendants); and no item is more
\* than one level below the item before it.
C26_TocPreOrder ==
    /\ [][ toc' # toc =>
               /\ stack # <<>>
               /\ toc' = Append(toc, toc'[Len(toc')])
               /\ toc'[Len(toc')].level >= 0
               /\ toc'[Len(toc')].level < stack[1].max_depth ]_vars
    /\ [](toc # <<>> => toc[1] = [node |-> outline.fc[0], level |-> 0])
    /\ [](\A p \in 1..(Len(toc) - 1) :
              LET a == toc[p]
                  b == toc[p + 1]
              IN  /\ b.level <= a.level + 1
                  /\ b.level = a.level + 1 => b.node = outline.fc[a.node]
                  /\ b.level <= a.level =>
                         \E q \in 1..p :
                             /\ toc[q].level = b.level
                             /\ \A r \in (q + 1)..p : toc[r].level > b.level
                             /\ b.node = outline.ns[toc[q].node])

\* C26's case: bookmark 1 with the child 2 and the next sibling 3 and no
\* further link: get_toc has yielded 1, its child 2 one level down, then 1's
\* sibling 3 at the top level, and is done.
C26_Witness ==
    /\ outline.fc = [n \in 0..MaxNodes |-> IF n = 0 THEN 1 ELSE IF n = 1 THEN 2 ELSE 0]
    /\ outline.ns = [n \in 1..MaxNodes |-> IF n = 1 THEN 3 ELSE 0]
    /\ toc_pc = "done"
    /\ toc = <<[node |-> 1, level |-> 0], [node |-> 2, level |-> 1],
               [node |-> 3, level |-> 0]>>

\* C27: for a Document made from a file path, whatever autoclose the caller
\* passed: under BUFFER the constructor opened one file and keeps it as the
\* input, and once close() has run that file is closed; under BYTES the one
\* file the constructor opened it has closed itself, the input is the bytes,
\* and close() closes no file; under NATIVE the constructor opened no file
\* and close() closes none.
C27_OwnFilesReleased ==
    orig_input.kind = "path" =>
        /\ file_access = "BUFFER" =>
               /\ opened = 1 /\ released.file = 0
               /\ actual_input.kind = "buffer"
               /\ released.doc > 0 => released.buf = 1
        /\ file_access = "BYTES" =>
               /\ opened = 1 /\ released.file = 1
               /\ actual_input.kind = "bytes"
               /\ released.buf = 0
        /\ file_access = "NATIVE" =>
               /\ opened = 0 /\ released.file = 0
               /\ actual_input.kind = "path"
               /\ released.buf = 0

\* C27's case: a Document made from a file path under BUFFER has been
\* closed, and the file the constructor opened is closed.
C27_Witness ==
    /\ orig_input.kind = "path"
    /\ file_access = "BUFFER"
    /\ opened = 1
    /\ released.doc = 1
    /\ released.buf = 1
    /\ result = "closed"

\* C28: when the constructor has failed, every file it opened is closed
\* again (by itself, or as the input buffer), no loader data is held and no
\* document is bound.
C28_FailedOpenHoldsNothing ==
    obj = "failed" =>
        /\ opened - released.file - released.buf = 0
        /\ ld_data = "None"
        /\ pdf = <<>>

====
